---- MODULE Spec2Model ----
(***************************************************************************)
(* Case-convention engine of js_utilities.vanilla.utils: camelize,         *)
(* decamelize and the structural walker _process_keys.                     *)
(*                                                                         *)
(* A Python string is a sequence of one-character strings.  A Python value *)
(* is a record [kind, str, num, elems, keys]: kind is the runtime type,    *)
(* str the characters of a str, num the number of an int / bool (1, 0) /   *)
(* float (in tenths), elems the elements of a list or, for a dict, the     *)
(* values in insertion order, keys the keys of a dict in insertion order.  *)
(***************************************************************************)
EXTENDS Integers, Sequences, FiniteSets, TLC

VARIABLES
    cur,        \* the value the caller holds: the next call's argument
    lastFn,     \* the function called last: "none", "camelize", "decamelize"
    lastArg,    \* the argument of the last call
    prevFn,     \* the function called before the last one
    prevArg,    \* the argument of the call before the last one
    raised      \* whether the last call ended in an exception, not in a return

vars == <<cur, lastFn, lastArg, prevFn, prevArg, raised>>

(***************************************************************************)
(* Bounds of the explored inputs.                                          *)
(***************************************************************************)
MaxLen == 4        \* arbitrary strings: at most this many characters
MaxSnakeLen == 6   \* snake_case identifiers: at most this many characters
MaxCamelLen == 6   \* camelCase / PascalCase identifiers
MaxSize == 4       \* containers: at most this many nodes (scalars + containers)
MaxListLen == 3    \* lists of strings: at most this many elements
MaxKeySize == 3    \* containers with keys that are not strings: at most this many nodes
MaxAcronymLen == 5 \* identifiers with acronyms: at most this many characters
MaxNum == 12       \* scalar arguments: ints up to this size, floats up to this many tenths

(***************************************************************************)
(* Characters.                                                             *)
(***************************************************************************)
LowerLetters ==
    <<"a","b","c","d","e","f","g","h","i","j","k","l","m",
      "n","o","p","q","r","s","t","u","v","w","x","y","z">>

UpperLetters ==
    <<"A","B","C","D","E","F","G","H","I","J","K","L","M",
      "N","O","P","Q","R","S","T","U","V","W","X","Y","Z">>

DigitChars == <<"0","1","2","3","4","5","6","7","8","9">>

Range(f) == {f[i] : i \in DOMAIN f}

\* [A-Z]
IsUpperChar(c) == c \in Range(UpperLetters)

IsLowerChar(c) == c \in Range(LowerLetters)

\* \d
IsDigitChar(c) == c \in Range(DigitChars)

\* [\-_\s] (of the whitespace class the model's alphabet holds the space)
IsDelim(c) == c \in {"-", "_", " "}

\* str.upper() of one character
upper_char(c) ==
    IF IsLowerChar(c)
    THEN UpperLetters[CHOOSE i \in DOMAIN LowerLetters : LowerLetters[i] = c]
    ELSE c

\* str.lower() of one character
lower_char(c) ==
    IF IsUpperChar(c)
    THEN LowerLetters[CHOOSE i \in DOMAIN UpperLetters : UpperLetters[i] = c]
    ELSE c

\* str.lower()
lower(s) == [i \in 1..Len(s) |-> lower_char(s[i])]

\* str.isupper(): at least one cased character, and no lowercase one
isupper(s) ==
    /\ \E i \in 1..Len(s) : IsUpperChar(s[i])
    /\ \A i \in 1..Len(s) : ~IsLowerChar(s[i])

\* str.isnumeric(): non-empty, digits only
isnumeric(s) ==
    /\ Len(s) > 0
    /\ \A i \in 1..Len(s) : IsDigitChar(s[i])

title_unchanged(s) == s

\* str.title() of a run of uppercase letters, as ACRONYM_RE hands it over
title(s) == [i \in 1..Len(s) |-> IF i = 1 THEN upper_char(s[i]) ELSE lower_char(s[i])]

(***************************************************************************)
(* The regular expressions.  XXX_RE(s, i) is the index of the last         *)
(* character of the match of XXX_RE at position i of s, or 0 if it does    *)
(* not match at i.                                                         *)
(***************************************************************************)
RECURSIVE DelimRunEnd(_, _)
\* the index after the maximal run of [\-_\s] that starts at i
DelimRunEnd(s, i) ==
    IF i <= Len(s) /\ IsDelim(s[i]) THEN DelimRunEnd(s, i + 1) ELSE i

RECURSIVE UpperRunEnd(_, _)
\* the index after the maximal run of [A-Z] that starts at i
UpperRunEnd(s, i) ==
    IF i <= Len(s) /\ IsUpperChar(s[i]) THEN UpperRunEnd(s, i + 1) ELSE i

RECURSIVE WordRunEnd(_, _)
\* the index after the maximal run of [^A-Z\-_\s] that starts at i
WordRunEnd(s, i) ==
    IF i <= Len(s) /\ ~IsUpperChar(s[i]) /\ ~IsDelim(s[i])
    THEN WordRunEnd(s, i + 1)
    ELSE i

\* UNDERSCORE_RE = (?<=[^\-_\s])[\-_\s]+[^\-_\s]
UNDERSCORE_RE_nolookbehind(s, i) ==
    LET j == DelimRunEnd(s, i)
    IN  IF j > i /\ j <= Len(s) THEN j ELSE 0

UNDERSCORE_RE_onedelim(s, i) ==
    IF /\ i > 1
       /\ ~IsDelim(s[i - 1])
       /\ IsDelim(s[i])
       /\ i + 1 <= Len(s)
       /\ ~IsDelim(s[i + 1])
    THEN i + 1
    ELSE 0

UNDERSCORE_RE(s, i) ==
    LET j == DelimRunEnd(s, i)
    IN  IF i > 1 /\ ~IsDelim(s[i - 1]) /\ j > i /\ j <= Len(s) THEN j ELSE 0

ACRONYM_RE_whole_run(s, i) ==
    LET j == UpperRunEnd(s, i)
    IN  IF j = i THEN 0 ELSE j - 1

\* ACRONYM_RE = ([A-Z]+)$|([A-Z]+)(?=[A-Z\d])
ACRONYM_RE(s, i) ==
    LET j == UpperRunEnd(s, i)
    IN  IF j = i THEN 0
        ELSE IF j > Len(s) THEN j - 1                 \* ([A-Z]+)$
        ELSE IF IsDigitChar(s[j]) THEN j - 1          \* the run, then a digit
        ELSE IF j - i >= 2 THEN j - 2                 \* given back one capital
        ELSE 0

\* SPLIT_RE = ([\-_\s]*[A-Z]+?[^A-Z\-_\s]*[\-_\s]*)
SPLIT_RE(s, i) ==
    LET j == DelimRunEnd(s, i)
    IN  IF j <= Len(s) /\ IsUpperChar(s[j])
        THEN DelimRunEnd(s, WordRunEnd(s, j + 1)) - 1
        ELSE 0

UnderscoreRepl_whole(m) == [i \in 1..Len(m) |-> upper_char(m[i])]

\* lambda m: m.group(0)[-1].upper()
UnderscoreRepl(m) == <<upper_char(m[Len(m)])>>

RECURSIVE UnderscoreSubFrom(_, _)
UnderscoreSubFrom(s, i) ==
    IF i > Len(s) THEN <<>>
    ELSE LET e == UNDERSCORE_RE(s, i)
         IN  IF e = 0
             THEN <<s[i]>> \o UnderscoreSubFrom(s, i + 1)
             ELSE UnderscoreRepl(SubSeq(s, i, e)) \o UnderscoreSubFrom(s, e + 1)

\* UNDERSCORE_RE.sub(lambda m: m.group(0)[-1].upper(), s)
UNDERSCORE_RE_sub(s) == UnderscoreSubFrom(s, 1)

RECURSIVE AcronymSubFrom(_, _)
AcronymSubFrom(s, i) ==
    IF i > Len(s) THEN <<>>
    ELSE LET e == ACRONYM_RE(s, i)
         IN  IF e = 0
             THEN <<s[i]>> \o AcronymSubFrom(s, i + 1)
             ELSE title(SubSeq(s, i, e)) \o AcronymSubFrom(s, e + 1)

\* ACRONYM_RE.sub(lambda m: m.group(0).title(), s)
ACRONYM_RE_sub(s) == AcronymSubFrom(s, 1)

RECURSIVE SplitFrom(_, _, _)
\* acc: the text since the last match
SplitFrom(s, i, acc) ==
    LET flush == IF acc = <<>> THEN <<>> ELSE <<acc>>
    IN  IF i > Len(s) THEN flush
        ELSE LET e == SPLIT_RE(s, i)
             IN  IF e = 0
                 THEN SplitFrom(s, i + 1, Append(acc, s[i]))
                 ELSE flush \o <<SubSeq(s, i, e)>> \o SplitFrom(s, e + 1, <<>>)

\* [s for s in SPLIT_RE.split(fixed_abbr) if s]
SPLIT_RE_split(s) == SplitFrom(s, 1, <<>>)

RECURSIVE join_nosep(_, _)
join_nosep(sep, parts) ==
    IF parts = <<>> THEN <<>> ELSE parts[1] \o join_nosep(sep, Tail(parts))

RECURSIVE join(_, _)
\* sep.join(parts)
join(sep, parts) ==
    IF parts = <<>> THEN <<>>
    ELSE IF Len(parts) = 1 THEN parts[1]
    ELSE parts[1] \o sep \o join(sep, Tail(parts))

(***************************************************************************)
(* Python values.                                                          *)
(***************************************************************************)
StrV(s) == [kind |-> "str", str |-> s, num |-> 0, elems |-> <<>>, keys |-> <<>>]

IntV(n) == [kind |-> "int", str |-> <<>>, num |-> n, elems |-> <<>>, keys |-> <<>>]

BoolV(b) ==
    [kind |-> "bool", str |-> <<>>, num |-> IF b THEN 1 ELSE 0,
     elems |-> <<>>, keys |-> <<>>]

\* a float with one decimal, held in tenths: FloatV(15) is 1.5
FloatV(tenths) ==
    [kind |-> "float", str |-> <<>>, num |-> tenths, elems |-> <<>>, keys |-> <<>>]

NoneV == [kind |-> "none", str |-> <<>>, num |-> 0, elems |-> <<>>, keys |-> <<>>]

ListV(es) == [kind |-> "list", str |-> <<>>, num |-> 0, elems |-> es, keys |-> <<>>]

DictV(ks, vs) == [kind |-> "dict", str |-> <<>>, num |-> 0, elems |-> vs, keys |-> ks]

\* bool(x)
Truthy(v) ==
    CASE v.kind = "str" -> v.str # <<>>
      [] v.kind \in {"int", "bool", "float"} -> v.num # 0
      [] v.kind = "none" -> FALSE
      [] OTHER -> v.elems # <<>>

RECURSIVE NatToStr(_)
NatToStr(n) ==
    IF n < 10 THEN <<DigitChars[n + 1]>>
    ELSE NatToStr(n \div 10) \o <<DigitChars[(n % 10) + 1]>>

IntToStr(n) == IF n < 0 THEN <<"-">> \o NatToStr(0 - n) ELSE NatToStr(n)

\* str(x) of a scalar
PyStr(v) ==
    CASE v.kind = "str" -> v.str
      [] v.kind = "int" -> IntToStr(v.num)
      [] v.kind = "bool" ->
            IF v.num = 1 THEN <<"T","r","u","e">> ELSE <<"F","a","l","s","e">>
      [] v.kind = "float" ->
            IF v.num < 0
            THEN <<"-">> \o NatToStr((0 - v.num) \div 10) \o <<".">>
                        \o NatToStr((0 - v.num) % 10)
            ELSE NatToStr(v.num \div 10) \o <<".">> \o NatToStr(v.num % 10)
      [] OTHER -> <<"N","o","n","e">>

\* a == b for two dict keys (equal keys share one entry of a dict)
KeyEq(a, b) ==
    LET IsNum(v) == v.kind \in {"int", "bool", "float"}
        Tenths(v) == IF v.kind = "float" THEN v.num ELSE 10 * v.num
    IN  IF IsNum(a) /\ IsNum(b) THEN Tenths(a) = Tenths(b) ELSE a = b

\* d[k] = v on a dict under construction
DictSet(d, k, v) ==
    IF \E i \in 1..Len(d.keys) : KeyEq(d.keys[i], k)
    THEN LET i == CHOOSE i \in 1..Len(d.keys) : KeyEq(d.keys[i], k)
         IN  DictV(d.keys, [d.elems EXCEPT ![i] = v])
    ELSE DictV(Append(d.keys, k), Append(d.elems, v))

(***************************************************************************)
(* camelize, decamelize, _process_keys.  The walker's fn is the name of    *)
(* the converter it was handed.                                            *)
(***************************************************************************)
\* str(str_or_iter if str_or_iter else '')
ScalarText(v) == IF Truthy(v) THEN PyStr(v) ELSE <<>>

\* camelize past its early-out: the first character, then UNDERSCORE_RE.sub
camelize_tail(s) ==
    UNDERSCORE_RE_sub(
        IF Len(s) # 0 /\ ~isupper(SubSeq(s, 1, IF Len(s) < 2 THEN Len(s) ELSE 2))
        THEN <<lower_char(s[1])>> \o Tail(s)
        ELSE s)

decamelize_tail_nolower(s) == join(<<"_">>, SPLIT_RE_split(ACRONYM_RE_sub(s)))

\* decamelize past its early-out: ACRONYM_RE.sub, SPLIT_RE.split, join, lower
decamelize_tail(s) == lower(join(<<"_">>, SPLIT_RE_split(ACRONYM_RE_sub(s))))

RECURSIVE camelize(_)
RECURSIVE decamelize(_)
RECURSIVE _process_keys(_, _)
RECURSIVE DictComprehension(_, _, _, _)

\* fn(x) for the converter the walker was handed
Call(fn, x) == IF fn = "camelize" THEN camelize(x) ELSE decamelize(x)

DictComprehension_converting_values(d, fn, i, acc) ==
    IF i > Len(d.keys) THEN acc
    ELSE DictComprehension(d, fn, i + 1,
            DictSet(acc, Call(fn, d.keys[i]), Call(fn, d.elems[i])))

\* {fn(k): _process_keys(v, fn) for k, v in str_or_iter.items()}, from entry i on
DictComprehension(d, fn, i, acc) ==
    IF i > Len(d.keys) THEN acc
    ELSE DictComprehension(d, fn, i + 1,
            DictSet(acc, Call(fn, d.keys[i]), _process_keys(d.elems[i], fn)))

_process_keys_converting_strings(str_or_iter, fn) ==
    CASE str_or_iter.kind = "list" ->
            ListV([i \in 1..Len(str_or_iter.elems) |->
                        _process_keys(str_or_iter.elems[i], fn)])
      [] str_or_iter.kind = "dict" ->
            DictComprehension(str_or_iter, fn, 1, DictV(<<>>, <<>>))
      [] str_or_iter.kind = "str" -> Call(fn, str_or_iter)
      [] OTHER -> str_or_iter

_process_keys(str_or_iter, fn) ==
    CASE str_or_iter.kind = "list" ->
            ListV([i \in 1..Len(str_or_iter.elems) |->
                        _process_keys(str_or_iter.elems[i], fn)])
      [] str_or_iter.kind = "dict" ->
            DictComprehension(str_or_iter, fn, 1, DictV(<<>>, <<>>))
      [] OTHER -> str_or_iter

camelize(str_or_iter) ==
    IF str_or_iter.kind \in {"list", "dict"}
    THEN _process_keys(str_or_iter, "camelize")
    ELSE LET s == ScalarText(str_or_iter)
         IN  IF isupper(s) \/ isnumeric(s)
             THEN str_or_iter
             ELSE StrV(camelize_tail(s))

decamelize_no_early_out(str_or_iter) ==
    IF str_or_iter.kind \in {"list", "dict"}
    THEN _process_keys(str_or_iter, "decamelize")
    ELSE StrV(decamelize_tail(ScalarText(str_or_iter)))

decamelize(str_or_iter) ==
    IF str_or_iter.kind \in {"list", "dict"}
    THEN _process_keys(str_or_iter, "decamelize")
    ELSE LET s == ScalarText(str_or_iter)
         IN  IF isupper(s) \/ isnumeric(s)
             THEN str_or_iter
             ELSE StrV(decamelize_tail(s))

\* Whether camelize(str_or_iter) or decamelize(str_or_iter) ends in an exception.
\* Neither has a raise statement or a check of the argument's type beyond the
\* isinstance test for containers: str() takes any object, and what follows
\* works on the str it returns.  No argument makes the call raise.
Raises(str_or_iter) == FALSE

(***************************************************************************)
(* The caller: it holds a value and passes it to camelize or decamelize,   *)
(* keeping what the call returns.                                          *)
(***************************************************************************)
Alphabet == {"a", "b", "A", "B", "1", "_", "-", " "}

StringsUpTo(chars, n) == UNION {[1..k -> chars] : k \in 0..n}

Start(inputs) ==
    /\ cur \in inputs
    /\ lastFn = "none"
    /\ lastArg = NoneV
    /\ prevFn = "none"
    /\ prevArg = NoneV
    /\ raised = FALSE

Init == Start({StrV(s) : s \in StringsUpTo(Alphabet, MaxLen)})

Camelize ==
    /\ raised' = Raises(cur)
    /\ cur' = IF Raises(cur) THEN cur ELSE camelize(cur)
    /\ lastFn' = "camelize"
    /\ lastArg' = cur
    /\ prevFn' = lastFn
    /\ prevArg' = lastArg

Decamelize ==
    /\ raised' = Raises(cur)
    /\ cur' = IF Raises(cur) THEN cur ELSE decamelize(cur)
    /\ lastFn' = "decamelize"
    /\ lastArg' = cur
    /\ prevFn' = lastFn
    /\ prevArg' = lastArg

Next == Camelize \/ Decamelize

Spec == Init /\ [][Next]_vars

(***************************************************************************)
(* Identifier shapes the claims speak of.                                  *)
(***************************************************************************)
\* one or more non-empty words of lowercase letters joined by single underscores
IsSnakeCase(s) ==
    /\ Len(s) >= 1
    /\ \A i \in 1..Len(s) : IsLowerChar(s[i]) \/ s[i] = "_"
    /\ s[1] # "_" /\ s[Len(s)] # "_"
    /\ \A i \in 1..(Len(s) - 1) : ~(s[i] = "_" /\ s[i + 1] = "_")

\* camelCase or PascalCase: letters only, every capital followed by a lowercase letter
IsCamelCase(s) ==
    /\ Len(s) >= 1
    /\ \A i \in 1..Len(s) : IsLowerChar(s[i]) \/ IsUpperChar(s[i])
    /\ IsLowerChar(s[Len(s)])
    /\ \A i \in 1..(Len(s) - 1) : ~(IsUpperChar(s[i]) /\ IsUpperChar(s[i + 1]))

RECURSIVE WordsToCamel(_, _)
\* the words of snake_case s from position i on: underscores dropped, the letter
\* after an underscore capitalised
WordsToCamel(s, i) ==
    IF i > Len(s) THEN <<>>
    ELSE IF s[i] = "_" THEN WordsToCamel(s, i + 1)
    ELSE IF i > 1 /\ s[i - 1] = "_"
         THEN <<UpperLetters[CHOOSE k \in 1..26 : LowerLetters[k] = s[i]]>>
                  \o WordsToCamel(s, i + 1)
         ELSE <<s[i]>> \o WordsToCamel(s, i + 1)

RECURSIVE WordsToSnake(_, _)
\* the words of camelCase s from position i on: every letter lower-cased, one
\* underscore before every capital but a leading one
WordsToSnake(s, i) ==
    IF i > Len(s) THEN <<>>
    ELSE IF IsUpperChar(s[i])
         THEN (IF i > 1 THEN <<"_">> ELSE <<>>)
                  \o <<LowerLetters[CHOOSE k \in 1..26 : UpperLetters[k] = s[i]]>>
                  \o WordsToSnake(s, i + 1)
         ELSE <<s[i]>> \o WordsToSnake(s, i + 1)

CountOf(c, s) == Cardinality({i \in 1..Len(s) : s[i] = c})

InitSnake ==
    Start({StrV(s) : s \in {x \in StringsUpTo({"a", "b", "_"}, MaxSnakeLen) : IsSnakeCase(x)}})

SpecSnake == InitSnake /\ [][Next]_vars

InitCamel ==
    Start({StrV(s) : s \in {x \in StringsUpTo({"a", "b", "A", "B"}, MaxCamelLen) : IsCamelCase(x)}})

SpecCamel == InitCamel /\ [][Next]_vars

(***************************************************************************)
(* C1: camelize of a snake_case identifier is its first word followed by   *)
(* every later word capitalised, all underscores removed.                  *)
(***************************************************************************)
C1_CamelizeSnakeCase ==
    (lastFn = "camelize" /\ lastArg.kind = "str" /\ IsSnakeCase(lastArg.str))
        => cur = StrV(WordsToCamel(lastArg.str, 1))

C1_Witness ==
    /\ lastFn = "camelize"
    /\ lastArg.kind = "str"
    /\ IsSnakeCase(lastArg.str)
    /\ CountOf("_", lastArg.str) >= 2
    /\ cur = StrV(WordsToCamel(lastArg.str, 1))

(***************************************************************************)
(* C2: decamelize of a camelCase or PascalCase identifier is its words,    *)
(* lower-cased, joined by exactly one underscore, none leading or trailing.*)
(***************************************************************************)
C2_DecamelizeCamelCase ==
    (lastFn = "decamelize" /\ lastArg.kind = "str" /\ IsCamelCase(lastArg.str))
        => cur = StrV(WordsToSnake(lastArg.str, 1))

C2_Witness ==
    /\ lastFn = "decamelize"
    /\ lastArg.kind = "str"
    /\ IsCamelCase(lastArg.str)
    /\ IsUpperChar(lastArg.str[1])
    /\ CountOf("_", cur.str) >= 2

(***************************************************************************)
(* C3: camelize is idempotent on strings: camelize of a camelize result    *)
(* returns it unchanged.                                                   *)
(***************************************************************************)
C3_CamelizeIdempotent ==
    (lastFn = "camelize" /\ prevFn = "camelize" /\ prevArg.kind = "str")
        => cur = lastArg

C3_Witness ==
    /\ lastFn = "camelize"
    /\ prevFn = "camelize"
    /\ prevArg.kind = "str"
    /\ lastArg # prevArg
    /\ cur = lastArg

(***************************************************************************)
(* C4: decamelize is idempotent on strings: decamelize of a decamelize     *)
(* result returns it unchanged.                                            *)
(***************************************************************************)
C4_DecamelizeIdempotent ==
    (lastFn = "decamelize" /\ prevFn = "decamelize" /\ prevArg.kind = "str")
        => cur = lastArg

C4_Witness ==
    /\ lastFn = "decamelize"
    /\ prevFn = "decamelize"
    /\ prevArg.kind = "str"
    /\ lastArg # prevArg
    /\ cur = lastArg

(***************************************************************************)
(* C5: a non-empty string of uppercase letters only, or of decimal digits  *)
(* only, is returned unchanged by camelize and by decamelize.              *)
(***************************************************************************)
IsConstant(s) ==
    /\ Len(s) >= 1
    /\ \/ \A i \in 1..Len(s) : IsUpperChar(s[i])
       \/ \A i \in 1..Len(s) : IsDigitChar(s[i])

C5_ConstantPreserved ==
    (lastFn \in {"camelize", "decamelize"} /\ lastArg.kind = "str" /\ IsConstant(lastArg.str))
        => cur = lastArg

C5_Witness ==
    /\ lastFn = "decamelize"
    /\ lastArg.kind = "str"
    /\ IsConstant(lastArg.str)
    /\ Len(lastArg.str) >= 2
    /\ IsUpperChar(lastArg.str[1])
    /\ cur = lastArg

(***************************************************************************)
(* C10: camelize removes every delimiter (hyphen, underscore, whitespace)  *)
(* from a string that its early-out does not return.                       *)
(***************************************************************************)
EarlyOut(s) == isupper(s) \/ isnumeric(s)

\* C10 as stated: no delimiter is left anywhere in the result
C10_NoDelimiterLeft ==
    (lastFn = "camelize" /\ lastArg.kind = "str" /\ ~EarlyOut(lastArg.str))
        => \A i \in 1..Len(cur.str) : ~IsDelim(cur.str[i])

\* the run of delimiters s starts with
LeadingDelims(s) == SubSeq(s, 1, DelimRunEnd(s, 1) - 1)

\* the run of delimiters s ends with
TrailingDelims(s) ==
    LET Starts == {i \in 1..(Len(s) + 1) : \A j \in i..Len(s) : IsDelim(s[j])}
    IN  SubSeq(s, CHOOSE i \in Starts : \A k \in Starts : i <= k, Len(s))

\* C10 as amended: the result keeps the delimiter runs the string starts and ends
\* with, and no other delimiter: none is left between two other characters
C10_InnerDelimitersRemoved ==
    (lastFn = "camelize" /\ lastArg.kind = "str" /\ ~EarlyOut(lastArg.str))
        => /\ LeadingDelims(cur.str) = LeadingDelims(lastArg.str)
           /\ TrailingDelims(cur.str) = TrailingDelims(lastArg.str)
           /\ \A i \in 1..Len(cur.str) :
                IsDelim(cur.str[i]) =>
                    \/ \A j \in 1..i : IsDelim(cur.str[j])
                    \/ \A j \in i..Len(cur.str) : IsDelim(cur.str[j])

C10_Witness ==
    /\ lastFn = "camelize"
    /\ lastArg.kind = "str"
    /\ ~EarlyOut(lastArg.str)
    /\ Len(lastArg.str) = 4
    /\ IsDelim(lastArg.str[1])
    /\ ~IsDelim(lastArg.str[2])
    /\ IsDelim(lastArg.str[3])
    /\ ~IsDelim(lastArg.str[4])
    /\ Len(cur.str) = 3

(***************************************************************************)
(* Containers: lists and dicts over a few scalars and keys.  The size of a *)
(* value is the number of its scalars and containers; the empty list and   *)
(* the empty dict are passed on their own.                                 *)
(***************************************************************************)
Leaves == {IntV(1), StrV(<<"c", "_", "d">>)}

StrKeys == {StrV(<<"a", "_", "b">>), StrV(<<"a", "B">>), StrV(<<"b", "C">>)}

OtherKeys == {IntV(5), IntV(0), BoolV(TRUE), NoneV, FloatV(15)}

\* the key sequences a dict of n entries can have: no two keys equal
KeySeqs(K, n) ==
    {ks \in [1..n -> K] : \A i, j \in 1..n : i < j => ~KeyEq(ks[i], ks[j])}

RECURSIVE ValuesOfSize(_, _)
RECURSIVE ForestsOfSize(_, _)

ValuesOfSize(K, n) ==
    IF n = 1 THEN Leaves
    ELSE LET F == ForestsOfSize(K, n - 1)
         IN  {ListV(f) : f \in F}
                \cup UNION {{DictV(ks, f) : ks \in KeySeqs(K, Len(f))} : f \in F}

ForestsOfSize(K, n) ==
    {<<v>> : v \in ValuesOfSize(K, n)}
        \cup UNION {{<<v>> \o f : v \in ValuesOfSize(K, m), f \in ForestsOfSize(K, n - m)} :
                        m \in 1..(n - 1)}

ValuesUpTo(K, n) ==
    {ListV(<<>>), DictV(<<>>, <<>>)} \cup UNION {ValuesOfSize(K, m) : m \in 1..n}

InitData == Start(ValuesUpTo(StrKeys, MaxSize))

SpecData == InitData /\ [][Next]_vars

InitKeys == Start(ValuesUpTo(OtherKeys \cup {StrV(<<"a", "_", "b">>)}, MaxKeySize))

SpecKeys == InitKeys /\ [][Next]_vars

Identifiers ==
    {StrV(<<"a", "_", "b">>), StrV(<<"c", "_", "d">>),
     StrV(<<"a", "B">>), StrV(<<"C", "d">>)}

\* lists of snake_case and camelCase strings
InitLists == Start({ListV(f) : f \in UNION {[1..n -> Identifiers] : n \in 1..MaxListLen}})

SpecLists == InitLists /\ [][Next]_vars

IsContainer(v) == v.kind \in {"list", "dict"}

RECURSIVE DistinctConverted(_, _)
\* in every dict of v the keys convert under fn to pairwise distinct names
DistinctConverted(v, fn) ==
    /\ v.kind = "dict" =>
            \A i, j \in 1..Len(v.keys) :
                i < j => Call(fn, v.keys[i]) # Call(fn, v.keys[j])
    /\ \A i \in 1..Len(v.elems) : DistinctConverted(v.elems[i], fn)

RECURSIVE SameShapeKeysConverted(_, _, _)
\* out has the shape of in, every key of in replaced by fn of it, every
\* non-container value of in unchanged
SameShapeKeysConverted(in, out, fn) ==
    IF IsContainer(in)
    THEN /\ out.kind = in.kind
         /\ Len(out.elems) = Len(in.elems)
         /\ Len(out.keys) = Len(in.keys)
         /\ \A i \in 1..Len(in.keys) : out.keys[i] = Call(fn, in.keys[i])
         /\ \A i \in 1..Len(in.elems) :
                SameShapeKeysConverted(in.elems[i], out.elems[i], fn)
    ELSE out = in

RECURSIVE Depth(_)
Depth(v) ==
    IF ~IsContainer(v) \/ v.elems = <<>> THEN 0
    ELSE 1 + (CHOOSE d \in {Depth(v.elems[i]) : i \in 1..Len(v.elems)} :
                \A e \in {Depth(v.elems[i]) : i \in 1..Len(v.elems)} : e <= d)

IsListOfDicts(v) ==
    /\ v.kind = "list"
    /\ Len(v.elems) >= 1
    /\ \A i \in 1..Len(v.elems) :
        /\ v.elems[i].kind = "dict"
        /\ \A j \in 1..Len(v.elems[i].keys) : v.elems[i].keys[j].kind = "str"

\* out holds the values of in, and no other
SameValueSet(in, out, fn) ==
    /\ \A j \in 1..Len(in.elems) : \E k \in 1..Len(out.elems) :
            SameShapeKeysConverted(in.elems[j], out.elems[k], fn)
    /\ \A k \in 1..Len(out.elems) : \E j \in 1..Len(in.elems) :
            SameShapeKeysConverted(in.elems[j], out.elems[k], fn)

ListShapePreserved(in, out, fn) ==
    /\ out.kind = "list"
    /\ Len(out.elems) = Len(in.elems)
    /\ \A i \in 1..Len(in.elems) :
        /\ out.elems[i].kind = "dict"
        /\ Len(out.elems[i].keys) = Len(in.elems[i].keys)
        /\ SameValueSet(in.elems[i], out.elems[i], fn)

C8_NonStringKeysPassThrough ==
    (lastFn \in {"camelize", "decamelize"} /\ lastArg.kind = "dict")
        => \A i \in 1..Len(lastArg.keys) :
                lastArg.keys[i].kind # "str" =>
                    \E j \in 1..Len(cur.keys) :
                        /\ cur.keys[j] = lastArg.keys[i]
                        /\ cur.elems[j] = _process_keys(lastArg.elems[i], lastFn)

(***************************************************************************)
(* C9: camelize of a list of snake_case strings is the list of their       *)
(* camelCase forms, and decamelize of a list of camelCase strings the list *)
(* of their snake_case forms.                                              *)
(***************************************************************************)
IsListOfStrings(v, Shape(_)) ==
    /\ v.kind = "list"
    /\ Len(v.elems) >= 1
    /\ \A i \in 1..Len(v.elems) : v.elems[i].kind = "str" /\ Shape(v.elems[i].str)

C9_ListOfStringsConverted ==
    /\ (lastFn = "camelize" /\ IsListOfStrings(lastArg, IsSnakeCase))
        => /\ cur.kind = "list"
           /\ Len(cur.elems) = Len(lastArg.elems)
           /\ \A i \in 1..Len(lastArg.elems) :
                cur.elems[i] = StrV(WordsToCamel(lastArg.elems[i].str, 1))
    /\ (lastFn = "decamelize" /\ IsListOfStrings(lastArg, IsCamelCase))
        => /\ cur.kind = "list"
           /\ Len(cur.elems) = Len(lastArg.elems)
           /\ \A i \in 1..Len(lastArg.elems) :
                cur.elems[i] = StrV(WordsToSnake(lastArg.elems[i].str, 1))

(***************************************************************************)
(* Scalar arguments that are no strings.                                   *)
(***************************************************************************)
Scalars ==
    {IntV(n) : n \in (0 - MaxNum)..MaxNum}
        \cup {FloatV(n) : n \in (0 - MaxNum)..MaxNum}
        \cup {BoolV(TRUE), BoolV(FALSE), NoneV}

InitScalars == Start(Scalars)

SpecScalars == InitScalars /\ [][Next]_vars

(***************************************************************************)
(* C11: camelize or decamelize called with a value that is neither a       *)
(* string, a list, a mapping nor None/empty (a non-zero integer, True, a   *)
(* float) fails with a type-mismatch error; it never returns a result made *)
(* by coercing the value to a string.                                      *)
(***************************************************************************)
IsInvalidType(v) == v.kind \in {"int", "bool", "float"} /\ Truthy(v)

C11_InvalidTypeRaises ==
    (lastFn \in {"camelize", "decamelize"} /\ IsInvalidType(lastArg))
        => raised /\ cur.kind # "str"

(***************************************************************************)
(* C12: for a non-empty string that camelize's early-out does not return,  *)
(* the first character of the result is the lower-cased first character of *)
(* the string unless its first two characters are both uppercase letters,  *)
(* and is the first character as it is if they are.                        *)
(***************************************************************************)
C12_LeadingCapitalRule ==
    (/\ lastFn = "camelize"
     /\ lastArg.kind = "str"
     /\ Len(lastArg.str) >= 1
     /\ ~EarlyOut(lastArg.str))
        => LET s == lastArg.str
               BothUpper == Len(s) >= 2 /\ IsUpperChar(s[1]) /\ IsUpperChar(s[2])
           IN  /\ Len(cur.str) >= 1
               /\ cur.str[1] = IF BothUpper THEN s[1] ELSE lower_char(s[1])

(***************************************************************************)
(* Identifiers with acronyms: letters and digits only.                     *)
(***************************************************************************)
IsAlnum(s) ==
    \A i \in 1..Len(s) : IsLowerChar(s[i]) \/ IsUpperChar(s[i]) \/ IsDigitChar(s[i])

\* the length of the acronym that starts the run of capitals at i: the whole
\* run at the end of the string or before a digit, the run without its last
\* capital before a lowercase letter (that capital starts the next word)
AcronymLen(s, i) ==
    LET j == UpperRunEnd(s, i)
    IN  IF j > Len(s) \/ IsDigitChar(s[j]) THEN j - i ELSE j - i - 1

HasAcronym(s) ==
    \E i \in 1..Len(s) :
        /\ IsUpperChar(s[i])
        /\ i = 1 \/ ~IsUpperChar(s[i - 1])
        /\ AcronymLen(s, i) >= 2

RECURSIVE AcronymWordsToSnake(_, _)
\* s from position i on, lower-cased, with one underscore before every capital
\* that starts a word: one that follows a lowercase letter or a digit, or that
\* follows a capital and precedes a lowercase letter
AcronymWordsToSnake(s, i) ==
    IF i > Len(s) THEN <<>>
    ELSE LET StartsWord ==
                /\ IsUpperChar(s[i])
                /\ i > 1
                /\ \/ ~IsUpperChar(s[i - 1])
                   \/ i < Len(s) /\ IsLowerChar(s[i + 1])
             Low == IF IsUpperChar(s[i])
                    THEN LowerLetters[CHOOSE k \in 1..26 : UpperLetters[k] = s[i]]
                    ELSE s[i]
         IN  (IF StartsWord THEN <<"_">> ELSE <<>>) \o <<Low>>
                \o AcronymWordsToSnake(s, i + 1)

InitAcronym == Start({StrV(s) : s \in StringsUpTo({"a", "A", "B", "1"}, MaxAcronymLen)})

SpecAcronym == InitAcronym /\ [][Next]_vars

C14_RoundTrip ==
    (/\ lastFn = "decamelize"
     /\ prevFn = "camelize"
     /\ prevArg.kind = "str"
     /\ IsSnakeCase(prevArg.str))
        => cur = prevArg

\* no two consecutive words after the first are both words of one letter
NoAdjacentSingleLetterWords(s) ==
    ~\E i \in 1..(Len(s) - 3) :
        /\ s[i] = "_"
        /\ s[i + 2] = "_"
        /\ i + 3 = Len(s) \/ s[i + 4] = "_"

\* C14 as amended: provided no two consecutive words after the first are both
\* words of one letter
C14_RoundTripNoAdjacentSingleLetters ==
    (/\ lastFn = "decamelize"
     /\ prevFn = "camelize"
     /\ prevArg.kind = "str"
     /\ IsSnakeCase(prevArg.str)
     /\ NoAdjacentSingleLetterWords(prevArg.str))
        => cur = prevArg

C14_Witness ==
    /\ lastFn = "decamelize"
    /\ prevFn = "camelize"
    /\ prevArg.kind = "str"
    /\ IsSnakeCase(prevArg.str)
    /\ NoAdjacentSingleLetterWords(prevArg.str)
    /\ Len(prevArg.str) >= 5
    /\ prevArg.str[2] = "_"
    /\ prevArg.str[4] = "_"
    /\ lastArg # prevArg
    /\ cur = prevArg

====
